---- MODULE Spec2Model ----
(***************************************************************************)
(* Alert lifecycle engine: ingestion with synchronous escalation           *)
(* evaluation (controllers/alertController.js, services/RuleEngine.js),    *)
(* the periodic auto-close worker (jobs/autoCloseWorker.js) and manual     *)
(* resolve.  Every store operation (insert, countDocuments, save, find,    *)
(* findOneAndUpdate, findByIdAndUpdate, aggregate) is one atomic step; the *)
(* code that runs between two awaits belongs to the step of the store      *)
(* operation that precedes it.  The one exception is the cache.set that    *)
(* follows an aggregation (getSummary, getTrends): it publishes a value    *)
(* read earlier into memory shared by all requests, and the order in which *)
(* the continuations of two store operations run is not the order in which *)
(* the store executed them, so it is a step of its own.                    *)
(***************************************************************************)
EXTENDS Integers, FiniteSets, Sequences, Bags, TLC

(* ------------------------------ bounds --------------------------------- *)
MaxAlerts == 1      \* calls of createAlert in one behaviour
MaxPrior  == 1      \* alerts stored before the first call (SpecIngest)
MaxReads  == 1      \* getSummary / getTrends calls in flight at once
MaxTicks  == 2      \* overlapping runs of runAutoClose
MaxEvals  == 2      \* calls of registry.evaluate on one document (SpecEval)
MaxStored == 3      \* alerts in the store when evaluate is called (SpecEval)
MaxAged   == 2      \* alerts in the store when the process starts (SpecWorker)

(* ----------------------------- constants ------------------------------- *)
MsPerMin == 60000   \* "* 60 * 1000" in the engines and in the worker
SummaryTtl == 60    \* cacheSet(CACHE_SUMMARY, result, 60)
TrendsTtl  == 300   \* cacheSet(CACHE_TRENDS, result, 300)


Statuses     == {"OPEN", "ESCALATED", "AUTO-CLOSED", "RESOLVED"}
LiveStatuses == {"OPEN", "ESCALATED"}
Terminal     == {"AUTO-CLOSED", "RESOLVED"}

SourceTypes == {"overspeed", "feedback_negative", "compliance", "other"}
Timestamps  == {0, 1, MsPerMin + 1}          \* event times, in ms
ClockValues == {MsPerMin - 1, MsPerMin}      \* values of Date.now(), in ms
Users       == {"u1"}                        \* req.user.email
None        == "none"                        \* an absent (undefined) field

(* metadata[document_valid] as sent by the caller *)
Flags == {"absent", "true", "false"}

NoTime == -1                                 \* an absent date field

(* ------------------------------ rules.json ----------------------------- *)
(* A policy; 0 and "" stand for an absent field, both falsy in the code.   *)
Policy(w, c, m, k) ==
  [window_mins |-> w, escalate_if_count |-> c, auto_close_mins |-> m, auto_close_if |-> k]

(* The catalogs the model is checked with; a sourceType outside the        *)
(* domain has no rule.                                                     *)
RuleCatalogs ==
  { [overspeed         |-> Policy(1, 2, 1, ""),
     feedback_negative |-> Policy(1, 1, 0, ""),
     compliance        |-> Policy(0, 0, 0, "document_valid")],
    [overspeed         |-> Policy(1, 1, 1, ""),
     compliance        |-> Policy(0, 0, 1, "document_valid")] }

VARIABLES
  rules,    \* the parsed rules.json, read once at startup
  store,    \* the alerts collection, in insertion order; _id = index
  req,      \* createAlert calls: position and in-memory document
  tick,     \* runAutoClose runs in flight: remaining candidates and now
  clock,    \* Date.now()
  cache,    \* the Map of services/cache.js: key -> [value, expiresAt]
  reads,    \* getSummary / getTrends calls in flight
  proc,     \* the process: the store connection and the worker
  rulesFile \* the content of rules.json on disk

vars == <<rules, store, req, tick, clock, cache, reads, proc, rulesFile>>

(* ------------------------------ server.js ------------------------------ *)
(* mongoose.connect(...).then(listen, startAutoCloseWorker): db is         *)
(* "connecting", "connected" or "failed"; worker is "off", "startup" (the  *)
(* schedule is registered and the find of the startup run is outstanding)  *)
(* or "on"; errorLogged says whether a run of the worker has failed and    *)
(* been reported with console.error                                        *)
Process(db, worker) == [db |-> db, worker |-> worker, errorLogged |-> FALSE]

Booting == Process("connecting", "off")
Serving == Process("connected", "on")

(* app.listen is called once the connection is established                 *)
Listening == proc.db = "connected"

(* cron.schedule has been called                                           *)
Scheduled == proc.worker # "off"

(* ------------------------------ documents ------------------------------ *)
(* POST /api/alerts bodies that pass the required-field and timestamp      *)
(* checks; status None is a body without a status.                         *)
InputBound(b) ==
  /\ b.flag # "absent" => b.sourceType = "compliance"
  /\ b.status # None => b.sourceType \in {"overspeed", "compliance"}
  /\ (b.status # None /\ b.sourceType = "compliance") => b.flag = "true"

Bodies ==
  {b \in [alertid : 1..(MaxPrior + MaxAlerts), sourceType : SourceTypes, timestamp : {0},
          status : {None, "RESOLVED"}, flag : Flags] :
     InputBound(b)}

(* new Alert({...}): the schema default fills a missing status with OPEN.  *)
NewAlert(id, b) ==
  [id |-> id, alertid |-> b.alertid, sourceType |-> b.sourceType,
   timestamp |-> b.timestamp,
   status |-> IF b.status = None THEN "OPEN" ELSE b.status,
   flag |-> b.flag,
   resolvedAt |-> NoTime, resolvedBy |-> None,
   closedAt |-> NoTime, closureNote |-> None]

(* metadata?.[key] of a document *)
MetaValue(doc, key) == IF key = "document_valid" THEN doc.flag ELSE "absent"

HasRule(t) == t \in DOMAIN rules

(* --------------------------- services/cache.js ------------------------- *)
Keys == {"summary", "trends"}      \* CACHE_SUMMARY, CACHE_TRENDS

NoEntries == [k \in {} |-> <<>>]   \* const store = new Map()

(* a get that treats an entry as expired from its expiry time on           *)
cacheGet_ExpiredAtExpiry(c, key, now) ==
  IF key \notin DOMAIN c THEN [hit |-> FALSE, value |-> <<>>, cache |-> c]
  ELSE IF now >= c[key].expiresAt
       THEN [hit |-> FALSE, value |-> <<>>,
             cache |-> [k \in DOMAIN c \ {key} |-> c[k]]]
       ELSE [hit |-> TRUE, value |-> c[key].value, cache |-> c]

(* get(key): the value, whether there is one (null otherwise), and the     *)
(* Map after the call; an entry past its expiry is deleted                 *)
cacheGet(c, key, now) ==
  IF key \notin DOMAIN c THEN [hit |-> FALSE, value |-> <<>>, cache |-> c]
  ELSE IF now > c[key].expiresAt
       THEN [hit |-> FALSE, value |-> <<>>,
             cache |-> [k \in DOMAIN c \ {key} |-> c[k]]]
       ELSE [hit |-> TRUE, value |-> c[key].value, cache |-> c]

(* set(key, value, ttlSeconds)                                             *)
cacheSet(c, key, value, ttlSeconds, now) ==
  [k \in DOMAIN c \cup {key} |->
     IF k = key THEN [value |-> value, expiresAt |-> now + ttlSeconds * 1000]
     ELSE c[k]]

(* invalidate(keys)                                                        *)
invalidate(c, keys) == [k \in DOMAIN c \ keys |-> c[k]]

(* ------------------------- services/RuleEngine.js ---------------------- *)
EscalationTypes == {"overspeed", "feedback_negative"}

(* countDocuments with $gt in place of $gte                                *)
countDocuments_GtFrom(type, from, to) ==
  Cardinality({i \in 1..Len(store) :
                 /\ store[i].sourceType = type
                 /\ store[i].timestamp > from
                 /\ store[i].timestamp <= to})

(* Alert.countDocuments({sourceType, timestamp: {$gte: from, $lte: to}})   *)
countDocuments(type, from, to) ==
  Cardinality({i \in 1..Len(store) :
                 /\ store[i].sourceType = type
                 /\ store[i].timestamp >= from
                 /\ store[i].timestamp <= to})

(* windowStart of OverspeedRuleEngine / FeedbackRuleEngine                 *)
windowStart(alert, rule) == alert.timestamp - rule.window_mins * MsPerMin

(* an engine without the early return on an escalated alert                *)
AlreadyEscalated_Never(alert) == FALSE

(* "if (alert.status === 'ESCALATED') return" of the two escalation engines *)
AlreadyEscalated(alert) == alert.status = "ESCALATED"

(* the comparison with > in place of >=                                    *)
ThresholdMet_Strict(count, rule) == count > rule.escalate_if_count

(* "if (count >= rule.escalate_if_count)"                                  *)
ThresholdMet(count, rule) == count >= rule.escalate_if_count

(* registry.evaluate(alert) up to its first store operation: the position  *)
(* the call is left in, and the in-memory document.                        *)
EvaluateEntry(alert) ==
  IF alert.sourceType \in EscalationTypes
  THEN IF AlreadyEscalated(alert) \/ ~HasRule(alert.sourceType)
       THEN [pc |-> "done", doc |-> alert]
       ELSE [pc |-> "count", doc |-> alert]
  ELSE IF alert.sourceType = "compliance"
  THEN IF \/ alert.status \in Terminal
          \/ ~HasRule("compliance")
          \/ rules["compliance"].auto_close_if = ""
       THEN [pc |-> "done", doc |-> alert]
       ELSE IF MetaValue(alert, rules["compliance"].auto_close_if) = "true"
            THEN [pc |-> "save", doc |-> [alert EXCEPT !.status = "AUTO-CLOSED"]]
            ELSE [pc |-> "done", doc |-> alert]
  ELSE [pc |-> "done", doc |-> alert]

(* a call of registry.evaluate(alert): entry is the status of the document *)
(* when the call starts, calls and saves count the calls of evaluate and   *)
(* of alert.save() after the insert.  At "done" evaluate has returned;     *)
(* createAlert then invalidates the caches and answers 201 with doc.status *)
(* without another store operation; res is the status code of the answer,  *)
(* 0 while there is none.                                                  *)
Call(alert, calls, saves) ==
  LET e == EvaluateEntry(alert)
  IN [pc |-> e.pc, doc |-> e.doc, entry |-> alert.status,
      calls |-> calls, saves |-> saves,
      res |-> IF e.pc = "done" THEN 201 ELSE 0]

(* a call answered 409: the insert was rejected, nothing else ran          *)
Rejected(b) ==
  [pc |-> "done", doc |-> NewAlert(0, b),
   entry |-> NewAlert(0, b).status, calls |-> 0, saves |-> 0, res |-> 409]

(* the end of createAlert for the call q: "invalidate([CACHE_SUMMARY,      *)
(* CACHE_TRENDS])" runs on the way to the 201, and only there              *)
Answered(q, c) == IF q.res = 201 THEN invalidate(c, Keys) ELSE c

(* ------------------- controllers/alertController.js -------------------- *)
(* a collection without the unique index                                   *)
UniqueViolation_NoIndex(b) == FALSE

(* "alertid: { unique: true }": the insert fails with code 11000           *)
UniqueViolation(b) == \E i \in 1..Len(store) : store[i].alertid = b.alertid

(* createAlert: alert.save() inserts the document unless the unique index  *)
(* on alertid rejects it (409); then registry.evaluate starts.             *)
CreateAlert(b) ==
  /\ Listening
  /\ Cardinality(req) < MaxAlerts
  /\ b.alertid <= Len(store) + 1
  /\ IF UniqueViolation(b)
     THEN /\ req' = req \cup {Rejected(b)}
          /\ UNCHANGED <<store, cache>>
     ELSE LET alert == NewAlert(Len(store) + 1, b)
          IN /\ store' = Append(store, alert)
             /\ req' = req \cup {Call(alert, 1, 0)}
             /\ cache' = Answered(Call(alert, 1, 0), cache)
  /\ UNCHANGED <<rules, tick, clock, reads, proc, rulesFile>>

(* the countDocuments of an escalation engine and the comparison after it  *)
EvaluateCount(q) ==
  /\ q \in req
  /\ q.pc = "count"
  /\ LET alert == q.doc
         rule  == rules[alert.sourceType]
         count == countDocuments(alert.sourceType, windowStart(alert, rule),
                                 alert.timestamp)
         after == IF ThresholdMet(count, rule)
                  THEN [q EXCEPT !.pc = "save", !.doc.status = "ESCALATED"]
                  ELSE [q EXCEPT !.pc = "done", !.res = 201]
     IN /\ req' = (req \ {q}) \cup {after}
        /\ cache' = Answered(after, cache)
  /\ UNCHANGED <<rules, store, tick, clock, reads, proc, rulesFile>>

(* alert.save() of an engine: updateOne({_id}, {$set: {status}})           *)
SaveMatches(doc, q) == TRUE

(* an engine that escalates every stored alert of the category            *)
EvaluateSave_WholeCategory(q) ==
  /\ q \in req
  /\ q.pc = "save"
  /\ store' = [i \in 1..Len(store) |->
                IF store[i].sourceType = q.doc.sourceType
                THEN [store[i] EXCEPT !.status = q.doc.status]
                ELSE store[i]]
  /\ LET after == [q EXCEPT !.pc = "done", !.saves = @ + 1, !.res = 201]
     IN /\ req' = (req \ {q}) \cup {after}
        /\ cache' = Answered(after, cache)
  /\ UNCHANGED <<rules, tick, clock, reads, proc, rulesFile>>

EvaluateSave(q) ==
  /\ q \in req
  /\ q.pc = "save"
  /\ store' = IF SaveMatches(store[q.doc.id], q)
              THEN [store EXCEPT ![q.doc.id].status = q.doc.status]
              ELSE store
  /\ LET after == [q EXCEPT !.pc = "done", !.saves = @ + 1, !.res = 201]
     IN /\ req' = (req \ {q}) \cup {after}
        /\ cache' = Answered(after, cache)
  /\ UNCHANGED <<rules, tick, clock, reads, proc, rulesFile>>

(* the inner catch of createAlert without its fall-through: the error of   *)
(* the engine reaches the outer catch and is answered 500                  *)
EngineError_Rethrown(q) == [q EXCEPT !.pc = "done", !.res = 500]

(* "catch (engineErr) { console.error(...) }": the error of the engine is  *)
(* logged and createAlert goes on to its last two statements               *)
EngineError(q) == [q EXCEPT !.pc = "done", !.res = 201]

(* the countDocuments of an engine throws                                  *)
EvaluateCountFails(q) ==
  /\ q \in req
  /\ q.pc = "count"
  /\ req' = (req \ {q}) \cup {EngineError(q)}
  /\ cache' = Answered(EngineError(q), cache)
  /\ UNCHANGED <<rules, store, tick, clock, reads, proc, rulesFile>>

(* the alert.save() of an engine throws; the in-memory status stays set    *)
EvaluateSaveFails(q) ==
  /\ q \in req
  /\ q.pc = "save"
  /\ req' = (req \ {q}) \cup {EngineError(q)}
  /\ cache' = Answered(EngineError(q), cache)
  /\ UNCHANGED <<rules, store, tick, clock, reads, proc, rulesFile>>

(* getSummary: the two aggregations; severity and driverId are not part of *)
(* a document here, so the result is the number of alerts                  *)
Summary(s) == <<Len(s)>>

(* getTrends: total, escalated and autoClosed of the day of the alerts     *)
Trends(s) ==
  <<Len(s),
    Cardinality({i \in 1..Len(s) : s[i].status = "ESCALATED"}),
    Cardinality({i \in 1..Len(s) : s[i].status = "AUTO-CLOSED"})>>

Aggregate(key, s) == IF key = "summary" THEN Summary(s) ELSE Trends(s)

Ttl(key) == IF key = "summary" THEN SummaryTtl ELSE TrendsTtl

(* getSummary / getTrends up to the await: a cached value is answered at   *)
(* once, otherwise the aggregation is issued                               *)
GetCached(key) ==
  /\ Listening
  /\ LET got == cacheGet(cache, key, clock)
     IN /\ cache' = got.cache
        /\ IF got.hit THEN reads' = reads
           ELSE /\ Cardinality(reads) < MaxReads
                /\ reads' = reads \cup
                     {[key |-> key, pc |-> "aggregate", value |-> <<>>]}
  /\ UNCHANGED <<rules, store, req, tick, clock, proc, rulesFile>>

(* the store executes the aggregation of the read r                        *)
ReadAggregate(r) ==
  /\ r \in reads
  /\ r.pc = "aggregate"
  /\ reads' = (reads \ {r}) \cup
                {[r EXCEPT !.pc = "set", !.value = Aggregate(r.key, store)]}
  /\ UNCHANGED <<rules, store, req, tick, clock, cache, proc, rulesFile>>

(* the continuation of the read r: cacheSet(key, result, ttl), answer 200  *)
ReadSet(r) ==
  /\ r \in reads
  /\ r.pc = "set"
  /\ cache' = cacheSet(cache, r.key, r.value, Ttl(r.key), clock)
  /\ reads' = reads \ {r}
  /\ UNCHANGED <<rules, store, req, tick, clock, proc, rulesFile>>

(* resolveAlert: findByIdAndUpdate(id, {$set: {status: 'RESOLVED', ...}}); *)
(* an id that matches no document is answered 404                          *)
ResolveMatches(doc) == TRUE

(* an update with {upsert: true}: an id that matches nothing is inserted   *)
findByIdAndUpdate_Upsert(id, user) ==
  IF id <= Len(store)
  THEN [store EXCEPT ![id].status = "RESOLVED",
                     ![id].resolvedAt = clock,
                     ![id].resolvedBy = user]
  ELSE Append(store,
         [NewAlert(Len(store) + 1,
                   [alertid |-> 0, sourceType |-> "other", timestamp |-> 0,
                    status |-> "RESOLVED", flag |-> "absent"])
            EXCEPT !.resolvedAt = clock, !.resolvedBy = user])

(* the collection after Alert.findByIdAndUpdate(id, {$set: {status:        *)
(* 'RESOLVED', 'metadata.resolvedAt': new Date(), 'metadata.resolvedBy':   *)
(* req.user.email}}, {new: true})                                          *)
findByIdAndUpdate(id, user) ==
  IF id <= Len(store) /\ ResolveMatches(store[id])
  THEN [store EXCEPT ![id].status = "RESOLVED",
                     ![id].resolvedAt = clock,
                     ![id].resolvedBy = user]
  ELSE store

(* the status of the answer: 404 when findByIdAndUpdate returns null       *)
resolveStatus(id) == IF id <= Len(store) THEN 200 ELSE 404

(* a resolve that invalidates before it looks at the result                *)
resolveAlert_InvalidatesFirst(id, user) ==
  /\ Listening
  /\ store' = findByIdAndUpdate(id, user)
  /\ cache' = invalidate(cache, Keys)
  /\ UNCHANGED <<rules, req, tick, clock, reads, proc, rulesFile>>

resolveAlert(id, user) ==
  /\ Listening
  /\ store' = findByIdAndUpdate(id, user)
  /\ cache' = IF id <= Len(store) THEN invalidate(cache, Keys) ELSE cache
  /\ UNCHANGED <<rules, req, tick, clock, reads, proc, rulesFile>>

(* ------------------------ jobs/autoCloseWorker.js ---------------------- *)
(* a candidate keeps the fields of the lean document that the loop reads   *)
lean(d) == [id |-> d.id, sourceType |-> d.sourceType, timestamp |-> d.timestamp,
            flag |-> d.flag, status |-> d.status, closedAt |-> d.closedAt]

(* a find that loads the escalated alerts only                             *)
findLive_EscalatedOnly ==
  LET live == SelectSeq(store, LAMBDA d : d.status = "ESCALATED")
  IN [i \in 1..Len(live) |-> lean(live[i])]

(* Alert.find({status: {$in: ['OPEN', 'ESCALATED']}}).lean()               *)
findLive ==
  LET live == SelectSeq(store, LAMBDA d : d.status \in LiveStatuses)
  IN [i \in 1..Len(live) |-> lean(live[i])]

(* the age test with > in place of >=                                      *)
AgeReached_Strict(ageMs, thresholdMs) == ageMs > thresholdMs

(* "if (ageMs >= thresholdMs)"                                             *)
AgeReached(ageMs, thresholdMs) == ageMs >= thresholdMs

(* a loop that closes by age, after one minute, whatever the catalog says  *)
closureNoteFor_DefaultAge(candidate, now) ==
  IF now - candidate.timestamp >= MsPerMin
  THEN "auto-closed after 1 mins with no resolution"
  ELSE None

(* the body of the candidate loop up to "if (!shouldClose) continue":      *)
(* the closure note, or None when the candidate is skipped                 *)
closureNoteFor(candidate, now) ==
  IF ~HasRule(candidate.sourceType) THEN None
  ELSE LET rule == rules[candidate.sourceType]
       IN IF rule.auto_close_mins # 0
          THEN IF AgeReached(now - candidate.timestamp,
                             rule.auto_close_mins * MsPerMin)
               THEN "auto-closed after " \o ToString(rule.auto_close_mins)
                      \o " mins with no resolution"
               ELSE None
          ELSE IF rule.auto_close_if # ""
          THEN IF MetaValue(candidate, rule.auto_close_if) = "true"
               THEN "auto-closed because " \o rule.auto_close_if \o " is true"
               ELSE None
          ELSE None

(* a findOneAndUpdate that filters on _id only                             *)
CloseMatches_IdOnly(doc) == TRUE

(* the filter of the worker's findOneAndUpdate:                            *)
(* {_id: candidate._id, status: {$in: ['OPEN', 'ESCALATED']}}              *)
CloseMatches(doc) == doc.status \in LiveStatuses

(* runAutoClose up to the loop: load the live alerts, read the clock;      *)
(* a run that finds no candidate returns at once                           *)
SweepFind ==
  /\ Scheduled
  /\ BagCardinality(tick) + (IF proc.worker = "startup" THEN 1 ELSE 0) < MaxTicks
  /\ LET candidates == findLive
     IN tick' = IF Len(candidates) = 0 THEN tick
                ELSE tick (+) SetToBag({[todo |-> candidates, now |-> clock]})
  /\ UNCHANGED <<rules, store, req, clock, cache, reads, proc, rulesFile>>

(* an update that replaces the metadata sub-document                       *)
closeUpdate_WholeMetadata(doc, closureNote, now) ==
  [doc EXCEPT !.status = "AUTO-CLOSED", !.closedAt = now,
              !.closureNote = closureNote,
              !.flag = "absent", !.resolvedAt = NoTime, !.resolvedBy = None]

(* {$set: {status: 'AUTO-CLOSED', 'metadata.closedAt': new Date(),         *)
(*         'metadata.closureNote': closureNote}} applied to doc            *)
closeUpdate(doc, closureNote, now) ==
  [doc EXCEPT !.status = "AUTO-CLOSED", !.closedAt = now,
              !.closureNote = closureNote]

(* a loop that gives up when the update matched nothing                    *)
afterUpdate_ThrowOnNull(t, updated) ==
  IF updated THEN Tail(t.todo) ELSE <<>>

(* "if (updated) console.log(...)" and the end of the iteration: the       *)
(* candidates that are left for the run t                                  *)
afterUpdate(t, updated) == Tail(t.todo)

(* one iteration of the candidate loop of the run t                        *)
SweepNext(t) ==
  /\ BagIn(t, tick)
  /\ LET candidate == Head(t.todo)
         note      == closureNoteFor(candidate, t.now)
         updated   == note # None /\ CloseMatches(store[candidate.id])
         left      == afterUpdate(t, updated)
     IN /\ store' = IF updated
                    THEN [store EXCEPT ![candidate.id] = closeUpdate(@, note, clock)]
                    ELSE store
        /\ tick' = (tick (-) SetToBag({t})) (+)
                     (IF left = <<>> THEN EmptyBag
                      ELSE SetToBag({[t EXCEPT !.todo = left]}))
  /\ UNCHANGED <<rules, req, clock, cache, reads, proc, rulesFile>>

(* a run that goes on with the next candidate after a store error          *)
SweepNextFails_Continue(t) ==
  /\ BagIn(t, tick)
  /\ closureNoteFor(Head(t.todo), t.now) # None
  /\ tick' = (tick (-) SetToBag({t})) (+)
               (IF Len(t.todo) = 1 THEN EmptyBag
                ELSE SetToBag({[t EXCEPT !.todo = Tail(@)]}))
  /\ proc' = [proc EXCEPT !.errorLogged = TRUE]
  /\ UNCHANGED <<rules, store, req, clock, cache, reads, rulesFile>>

(* the findOneAndUpdate of the run t throws: the exception leaves the loop *)
(* and runAutoClose, and is logged by the caller (the .catch of the        *)
(* startup run, the try/catch of the scheduled callback); an iteration     *)
(* that skips its candidate calls nothing that could throw                 *)
SweepNextFails(t) ==
  /\ BagIn(t, tick)
  /\ closureNoteFor(Head(t.todo), t.now) # None
  /\ tick' = tick (-) SetToBag({t})
  /\ proc' = [proc EXCEPT !.errorLogged = TRUE]
  /\ UNCHANGED <<rules, store, req, clock, cache, reads, rulesFile>>

(* startAutoCloseWorker: the find of the startup run is answered           *)
SweepStartup ==
  /\ proc.worker = "startup"
  /\ LET candidates == findLive
     IN tick' = IF Len(candidates) = 0 THEN tick
                ELSE tick (+) SetToBag({[todo |-> candidates, now |-> clock]})
  /\ proc' = [proc EXCEPT !.worker = "on"]
  /\ UNCHANGED <<rules, store, req, clock, cache, reads, rulesFile>>

(* a startup run whose rejection nobody handles ends the process           *)
SweepStartupFails_Unhandled ==
  /\ proc.worker = "startup"
  /\ proc' = Process("exited", "off")
  /\ tick' = EmptyBag
  /\ UNCHANGED <<rules, store, req, clock, cache, reads, rulesFile>>

(* the find of the startup run throws: ".catch((err) => console.error())"; *)
(* a scheduled run whose find throws is logged likewise and changes        *)
(* nothing, so it has no action of its own                                 *)
SweepStartupFails ==
  /\ proc.worker = "startup"
  /\ proc' = [proc EXCEPT !.worker = "on", !.errorLogged = TRUE]
  /\ UNCHANGED <<rules, store, req, tick, clock, cache, reads, rulesFile>>

(* mongoose.connect(MONGO_URI).then(...): listen, startAutoCloseWorker     *)
Connect ==
  /\ proc = Booting
  /\ proc' = Process("connected", "startup")
  /\ UNCHANGED <<rules, store, req, tick, clock, cache, reads, rulesFile>>

(* a failed connection that starts the worker all the same                 *)
ConnectFails_StartsWorker ==
  /\ proc = Booting
  /\ proc' = Process("failed", "startup")
  /\ UNCHANGED <<rules, store, req, tick, clock, cache, reads, rulesFile>>

(* .catch((err) => { console.error(...); process.exit(1); })               *)
ConnectFails ==
  /\ proc = Booting
  /\ proc' = Process("failed", "off")
  /\ UNCHANGED <<rules, store, req, tick, clock, cache, reads, rulesFile>>

(* ------------------------------- time ---------------------------------- *)
Advance ==
  /\ \E c \in ClockValues : c > clock
  /\ clock' = CHOOSE c \in ClockValues :
                 c > clock /\ \A d \in ClockValues : d > clock => c <= d
  /\ UNCHANGED <<rules, store, req, tick, cache, reads, proc, rulesFile>>

(* --------------------------- specification ----------------------------- *)
Init ==
  /\ rules \in RuleCatalogs
  /\ store = <<>>
  /\ req = {}
  /\ tick = EmptyBag
  /\ clock = MsPerMin - 1
  /\ cache = NoEntries
  /\ reads = {}
  /\ proc = Serving
  /\ rulesFile = rules

Next ==
  \/ \E b \in Bodies : CreateAlert(b)
  \/ \E q \in req : EvaluateCount(q)
  \/ \E q \in req : EvaluateSave(q)
  \/ \E id \in 1..MaxAlerts, user \in Users : resolveAlert(id, user)
  \/ SweepFind
  \/ \E t \in BagToSet(tick) : SweepNext(t)
  \/ Advance

Spec == Init /\ [][Next]_vars

(* ------------------- registry.evaluate on its own ---------------------- *)
(* The evaluator applied to a persisted alert, up to MaxEvals times in a   *)
(* row on the same in-memory document, over every small store.             *)
EvalDocs ==
  {NewAlert(0, b) : b \in
     [alertid : {0}, sourceType : EscalationTypes, timestamp : Timestamps,
      status : {"OPEN", "ESCALATED", "RESOLVED"}, flag : {"absent"}]}

EvalStores ==
  UNION {[1..n -> EvalDocs] : n \in 1..MaxStored}

Stored(s) == [i \in 1..Len(s) |-> [s[i] EXCEPT !.id = i, !.alertid = i]]

EvaluateAgain(q) ==
  /\ q \in req
  /\ q.pc = "done"
  /\ q.calls < MaxEvals
  /\ req' = (req \ {q}) \cup {Call(q.doc, q.calls + 1, q.saves)}
  /\ UNCHANGED <<rules, store, tick, clock, cache, reads, proc, rulesFile>>

InitEval ==
  /\ rules \in RuleCatalogs
  /\ \E s \in EvalStores : store = Stored(s)
  /\ \E k \in 1..Len(store) : req = {Call(store[k], 1, 0)}
  /\ tick = EmptyBag
  /\ clock = MsPerMin - 1
  /\ cache = NoEntries
  /\ reads = {}
  /\ proc = Serving
  /\ rulesFile = rules

NextEval ==
  \/ \E q \in req : EvaluateCount(q)
  \/ \E q \in req : EvaluateSave(q)
  \/ \E q \in req : EvaluateAgain(q)

SpecEval == InitEval /\ [][NextEval]_vars

(* ------------------------ createAlert on its own ----------------------- *)
(* Ingestion into a store that already holds up to MaxPrior alerts, with   *)
(* store operations of the engine that may throw, and with a cache that    *)
(* earlier getSummary / getTrends calls may have filled.                   *)
PriorDocs ==
  {NewAlert(0, b) : b \in
     [alertid : {0}, sourceType : EscalationTypes, timestamp : {0, 1},
      status : {None}, flag : {"absent"}]}

PriorStores ==
  UNION {[1..n -> PriorDocs] : n \in 0..MaxPrior}

(* the cache after getSummary / getTrends calls for the keys ks on store s *)
Filled(ks, s, now) ==
  [k \in ks |-> cacheSet(NoEntries, k, Aggregate(k, s), Ttl(k), now)[k]]

InitIngest ==
  /\ rules \in RuleCatalogs
  /\ \E s \in PriorStores : store = Stored(s)
  /\ req = {}
  /\ tick = EmptyBag
  /\ clock = MsPerMin - 1
  /\ \E ks \in SUBSET Keys : cache = Filled(ks, store, clock)
  /\ reads = {}
  /\ proc = Serving
  /\ rulesFile = rules

NextIngest ==
  \/ \E b \in Bodies : CreateAlert(b)
  \/ \E q \in req : EvaluateCount(q)
  \/ \E q \in req : EvaluateSave(q)
  \/ \E q \in req : EvaluateCountFails(q)
  \/ \E q \in req : EvaluateSaveFails(q)

SpecIngest == InitIngest /\ [][NextIngest]_vars

(* ---------------------- the process and its worker --------------------- *)
(* The process from mongoose.connect on, over a store that holds up to     *)
(* MaxAged live alerts from an earlier run of the service: the startup     *)
(* run, the scheduled runs that may overlap it and each other, and store   *)
(* operations of the worker that may throw.                                *)
AgedDocs ==
  {NewAlert(0, b) : b \in
     {c \in [alertid : {0}, sourceType : {"overspeed", "compliance", "other"},
             timestamp : {0}, status : {None}, flag : Flags] :
        IF c.sourceType = "compliance" THEN c.flag # "absent"
        ELSE c.flag = "absent"}}

AgedStores ==
  UNION {[1..n -> AgedDocs] : n \in 0..MaxAged}

InitWorker ==
  /\ rules \in RuleCatalogs
  /\ \E s \in AgedStores : store = Stored(s)
  /\ req = {}
  /\ tick = EmptyBag
  /\ clock = MsPerMin - 1
  /\ cache = NoEntries
  /\ reads = {}
  /\ proc = Booting
  /\ rulesFile = rules

NextWorker ==
  \/ Connect
  \/ ConnectFails
  \/ SweepStartup
  \/ SweepStartupFails
  \/ SweepFind
  \/ \E t \in BagToSet(tick) : SweepNext(t)
  \/ \E t \in BagToSet(tick) : SweepNextFails(t)
  \/ Advance

SpecWorker == InitWorker /\ [][NextWorker]_vars

(* The same process under the scheduling the code relies on: time passes,  *)
(* node-cron keeps firing, an iteration that skips its candidate runs to   *)
(* its end, and the store is available again and again, so that the        *)
(* findOneAndUpdate for an alert, attempted again and again, is eventually *)
(* executed.  Time also passes before the connection is made, so stored    *)
(* alerts may be past their age threshold when the worker starts.          *)
FairWorker ==
  /\ WF_vars(Advance)
  /\ WF_vars(SweepFind)
  /\ WF_vars(\E t \in BagToSet(tick) :
               closureNoteFor(Head(t.todo), t.now) = None /\ SweepNext(t))
  /\ \A i \in 1..MaxAged :
       SF_vars(\E t \in BagToSet(tick) :
                 /\ Head(t.todo).id = i
                 /\ closureNoteFor(Head(t.todo), t.now) # None
                 /\ SweepNext(t))

SpecWorkerFair == SpecWorker /\ FairWorker

(* ------------------------ resolveAlert on its own ---------------------- *)
(* Manual resolves, of stored alerts and of ids that match nothing, over a *)
(* store of up to MaxPrior alerts, next to dashboard reads that fill the   *)
(* cache.                                                                  *)
NextResolve ==
  \/ \E id \in 1..(MaxPrior + 1), user \in Users : resolveAlert(id, user)
  \/ \E key \in Keys : GetCached(key)
  \/ \E r \in reads : ReadAggregate(r)
  \/ \E r \in reads : ReadSet(r)
  \/ Advance

SpecResolve == InitIngest /\ [][NextResolve]_vars

(* ----------------- the service while rules.json is edited --------------- *)
(* getRulesConfig: the file is read again on every request                 *)
getRulesConfig == rulesFile

(* an administrator replaces rules.json while the process runs             *)
EditRules ==
  /\ \E c \in RuleCatalogs \ {rulesFile} : rulesFile' = c
  /\ UNCHANGED <<rules, store, req, tick, clock, cache, reads, proc>>

NextReload ==
  \/ Next
  \/ EditRules

SpecReload == Init /\ [][NextReload]_vars

(* ------------------- the whole service with its cache ------------------ *)
NextCache ==
  \/ Next
  \/ \E key \in Keys : GetCached(key)
  \/ \E r \in reads : ReadAggregate(r)
  \/ \E r \in reads : ReadSet(r)

SpecCache == Init /\ [][NextCache]_vars

(* ------------------------ services/cache.js on its own ------------------ *)
(* get, set and invalidate called in any order on the two keys, with the   *)
(* TTLs the controller passes, at times on both sides of each expiry.      *)
CacheTimes ==
  {0, SummaryTtl * 1000, SummaryTtl * 1000 + 1,
      TrendsTtl * 1000,  TrendsTtl * 1000 + 1}

CacheValues == {<<0>>, <<1>>}

TtlGet(key) ==
  /\ cache' = cacheGet(cache, key, clock).cache
  /\ UNCHANGED <<rules, store, req, tick, clock, reads, proc, rulesFile>>

TtlSet(key, value) ==
  /\ cache' = cacheSet(cache, key, value, Ttl(key), clock)
  /\ UNCHANGED <<rules, store, req, tick, clock, reads, proc, rulesFile>>

TtlInvalidate(keys) ==
  /\ cache' = invalidate(cache, keys)
  /\ UNCHANGED <<rules, store, req, tick, clock, reads, proc, rulesFile>>

TtlAdvance ==
  /\ \E c \in CacheTimes : c > clock
  /\ clock' = CHOOSE c \in CacheTimes :
                 c > clock /\ \A d \in CacheTimes : d > clock => c <= d
  /\ UNCHANGED <<rules, store, req, tick, cache, reads, proc, rulesFile>>

InitTtl ==
  /\ rules \in RuleCatalogs
  /\ store = <<>>
  /\ req = {}
  /\ tick = EmptyBag
  /\ clock = 0
  /\ cache = NoEntries
  /\ reads = {}
  /\ proc = Serving
  /\ rulesFile = rules

NextTtl ==
  \/ \E key \in Keys : TtlGet(key)
  \/ \E key \in Keys, value \in CacheValues : TtlSet(key, value)
  \/ \E keys \in SUBSET Keys : TtlInvalidate(keys)
  \/ TtlAdvance

SpecTtl == InitTtl /\ [][NextTtl]_vars

TypeOK ==
  /\ \A i \in 1..Len(store) : store[i].id = i /\ store[i].status \in Statuses
  /\ \A q \in req : q.pc \in {"count", "save", "done"}
  /\ clock \in ClockValues \cup CacheTimes

(* ------------------------------ properties ----------------------------- *)
(* C1: once the persisted status of an alert is AUTO-CLOSED or RESOLVED,   *)
(* no step of ingestion, evaluation, sweep or resolve changes it.          *)
C1_TerminalStatusNeverChanges ==
  [][\A i \in 1..Len(store) :
       store[i].status \in Terminal => store'[i].status = store[i].status]_vars

(* C2: the save of an escalation engine that read the alert as OPEN        *)
(* changes nothing in the store when the persisted status is no longer     *)
(* OPEN at the time of the write.                                          *)
C2_StaleEscalationChangesNothing ==
  [][\A q \in req :
       ( /\ EvaluateSave(q)
         /\ q.doc.sourceType \in EscalationTypes
         /\ q.entry = "OPEN"
         /\ store[q.doc.id].status # "OPEN" ) => store' = store]_vars

(* C3: of the writers racing on one alert, a write is applied only while   *)
(* the persisted status is still the status its writer read, so that a     *)
(* second write from the same status changes nothing.                      *)
C3_OnlyOneRacerApplies ==
  [][ /\ \A q \in req :
           (EvaluateSave(q) /\ store' # store) =>
             store[q.doc.id].status = q.entry
      /\ \A t \in BagToSet(tick) :
           (SweepNext(t) /\ store' # store) =>
             store[Head(t.todo).id].status = Head(t.todo).status ]_vars

(* C4: a manual resolve leaves every field of an alert whose persisted     *)
(* status is AUTO-CLOSED or RESOLVED as it was.                            *)
C4_ResolveLeavesTerminalAlone ==
  [][(\E id \in 1..MaxAlerts, user \in Users : resolveAlert(id, user)) =>
       \A i \in 1..Len(store) :
         store[i].status \in Terminal => store'[i] = store[i]]_vars

(* C5: of the runs that loaded the same alert, one applies the closure:    *)
(* a run that applies it finds closedAt as it was when the run loaded the  *)
(* alert, so closedAt and closureNote are written once.                    *)
C5_ClosureWrittenOncePerRace ==
  [][\A t \in BagToSet(tick) :
       (SweepNext(t) /\ store' # store) =>
         store[Head(t.todo).id].closedAt = Head(t.todo).closedAt]_vars

(* C6: the sweeper never modifies an alert whose persisted status is       *)
(* AUTO-CLOSED or RESOLVED: every candidate was loaded with a live status, *)
(* and no step of a run changes an alert that is terminal at that step.    *)
C6_SweeperLeavesTerminalAlone ==
  /\ [](\A t \in BagToSet(tick) : \A k \in 1..Len(t.todo) :
          t.todo[k].status \in LiveStatuses)
  /\ [][tick' # tick =>
          \A i \in 1..Len(store) :
            store[i].status \in Terminal => store'[i] = store[i]]_vars

(* a run is about to update a candidate that qualifies for closure and     *)
(* that became terminal after the run loaded it                            *)
C6_Witness ==
  \E t \in BagToSet(tick) :
    /\ closureNoteFor(Head(t.todo), t.now) # None
    /\ store[Head(t.todo).id].status \in Terminal

(* C7: an evaluation that started on an alert whose status is AUTO-CLOSED  *)
(* or RESOLVED never reaches a save.                                       *)
C7_TerminalEvaluationWritesNothing ==
  [][\A q \in req : EvaluateSave(q) => q.entry \notin Terminal]_vars

(* C8: a second evaluation of a document that is already ESCALATED returns *)
(* without a store operation, so two evaluations write at most once.       *)
C8_EvaluateTwiceWritesOnce ==
  \A q \in req :
    (q.calls >= 2 /\ q.entry = "ESCALATED") => (q.pc = "done" /\ q.saves <= 1)

(* evaluated twice: the first call escalated and saved, the second found   *)
(* the document ESCALATED                                                  *)
C8_Witness ==
  \E q \in req :
    /\ q.calls = 2 /\ q.entry = "ESCALATED" /\ q.saves = 1
    /\ store[q.doc.id].status = "ESCALATED"

(* C9: an OPEN alert of a category with an escalation policy is escalated  *)
(* exactly when the stored alerts of its category, of any status, whose    *)
(* timestamp lies between timestamp - window_mins minutes and timestamp,   *)
(* both ends included, number at least escalate_if_count.                  *)
InWindow(i, a) ==
  /\ store[i].sourceType = store[a].sourceType
  /\ store[a].timestamp - store[i].timestamp >= 0
  /\ store[a].timestamp - store[i].timestamp
       <= rules[store[a].sourceType].window_mins * MsPerMin

C9_EscalatesIffWindowCount ==
  \A q \in req :
    ( /\ q.entry = "OPEN"
      /\ q.doc.sourceType \in EscalationTypes
      /\ HasRule(q.doc.sourceType)
      /\ q.pc # "count" ) =>
        /\ q.doc.status = "ESCALATED"
             <=> Cardinality({i \in 1..Len(store) : InWindow(i, q.doc.id)})
                   >= rules[q.doc.sourceType].escalate_if_count
        /\ (q.pc = "done" /\ q.doc.status = "ESCALATED") =>
             store[q.doc.id].status = "ESCALATED"

(* escalated with exactly escalate_if_count alerts in the window, one of   *)
(* them exactly window_mins older                                          *)
C9_Witness ==
  \E q \in req :
    /\ q.entry = "OPEN" /\ q.pc = "done" /\ q.saves = 1
    /\ store[q.doc.id].status = "ESCALATED"
    /\ Cardinality({i \in 1..Len(store) : InWindow(i, q.doc.id)})
         = rules[q.doc.sourceType].escalate_if_count
    /\ \E i \in 1..Len(store) :
         /\ InWindow(i, q.doc.id)
         /\ store[q.doc.id].timestamp - store[i].timestamp
              = rules[q.doc.sourceType].window_mins * MsPerMin

(* C10: for a live alert whose policy defines auto_close_mins, an          *)
(* iteration of a run closes it exactly when now - timestamp is at least   *)
(* auto_close_mins minutes.                                                *)
C10_AgeClosureIffOldEnough ==
  [][\A t \in BagToSet(tick) :
       (tick' # tick /\ SweepNext(t)) =>
         LET c == Head(t.todo)
         IN ( /\ HasRule(c.sourceType)
              /\ rules[c.sourceType].auto_close_mins # 0
              /\ store[c.id].status \in LiveStatuses ) =>
              ( store'[c.id].status = "AUTO-CLOSED"
                <=> t.now - c.timestamp
                      >= rules[c.sourceType].auto_close_mins * MsPerMin )]_vars

(* an alert exactly auto_close_mins old was closed by a run                *)
C10_Witness ==
  \E i \in 1..Len(store) :
    /\ store[i].status = "AUTO-CLOSED"
    /\ HasRule(store[i].sourceType)
    /\ rules[store[i].sourceType].auto_close_mins # 0
    /\ store[i].closedAt - store[i].timestamp
         = rules[store[i].sourceType].auto_close_mins * MsPerMin

(* C11: for a live alert whose policy names a metadata key, an iteration   *)
(* of a run closes it exactly when the value under that key is true (or    *)
(* when the age rule of the same policy has already qualified it).         *)
C11_FlagClosureIffTrue ==
  [][\A t \in BagToSet(tick) :
       (tick' # tick /\ SweepNext(t)) =>
         LET c == Head(t.todo)
         IN ( /\ HasRule(c.sourceType)
              /\ rules[c.sourceType].auto_close_if # ""
              /\ store[c.id].status \in LiveStatuses ) =>
              ( store'[c.id].status = "AUTO-CLOSED"
                <=> \/ MetaValue(c, rules[c.sourceType].auto_close_if) = "true"
                    \/ /\ rules[c.sourceType].auto_close_mins # 0
                       /\ t.now - c.timestamp
                            >= rules[c.sourceType].auto_close_mins * MsPerMin )]_vars

(* C12: under a policy with both closure fields, a live alert younger than *)
(* auto_close_mins whose flag is true is closed by the iteration of a run. *)
C12_AgeRuleThenFlagRule ==
  [][\A t \in BagToSet(tick) :
       (tick' # tick /\ SweepNext(t)) =>
         LET c == Head(t.todo)
         IN ( /\ HasRule(c.sourceType)
              /\ rules[c.sourceType].auto_close_mins # 0
              /\ rules[c.sourceType].auto_close_if # ""
              /\ t.now - c.timestamp < rules[c.sourceType].auto_close_mins * MsPerMin
              /\ MetaValue(c, rules[c.sourceType].auto_close_if) = "true"
              /\ store[c.id].status \in LiveStatuses ) =>
              store'[c.id].status = "AUTO-CLOSED"]_vars

(* C13: the status of an alert whose sourceType has no policy in the       *)
(* catalog is changed by no step other than a manual resolve.              *)
C13_NoPolicyNoTransition ==
  [][\A i \in 1..Len(store) :
       (~HasRule(store[i].sourceType) /\ store'[i].status # store[i].status) =>
         \E user \in Users : resolveAlert(i, user)]_vars

(* a run is about to process an OPEN candidate without a policy that is    *)
(* one minute old and whose ingestion call has returned                    *)
C13_Witness ==
  \E t \in BagToSet(tick) :
    /\ ~HasRule(Head(t.todo).sourceType)
    /\ t.now - Head(t.todo).timestamp >= MsPerMin
    /\ store[Head(t.todo).id].status = "OPEN"
    /\ \E q \in req : q.doc.id = Head(t.todo).id /\ q.pc = "done"

(* C14: the document written by an accepted ingestion has status OPEN.     *)
C14_CreatedOpen ==
  [][Len(store') > Len(store) => store'[Len(store')].status = "OPEN"]_vars

(* C17: the only status an ingestion call writes after the insert is       *)
(* ESCALATED; a compliance alert whose flag is true stays live until a run *)
(* of the worker closes it.                                                *)
C17_IngestionOnlyEscalates ==
  [][\A q \in req :
       (EvaluateSave(q) /\ store' # store) =>
         store'[q.doc.id].status = "ESCALATED"]_vars

C16_IngestionSurvivesEngineError ==
  [][\A q \in req :
       (EvaluateCountFails(q) \/ EvaluateSaveFails(q)) =>
         /\ q.doc.id \in 1..Len(store)
         /\ store' = store
         /\ \E p \in req' : p.doc.id = q.doc.id /\ p.pc = "done" /\ p.res = 201
         /\ DOMAIN cache' \cap Keys = {}]_vars

(* the save of an escalation threw: answered 201, the alert is stored and  *)
(* still OPEN, the cache is empty                                          *)
C16_Witness ==
  \E q \in req :
    /\ q.pc = "done" /\ q.res = 201
    /\ q.entry = "OPEN" /\ q.doc.status = "ESCALATED" /\ q.saves = 0
    /\ store[q.doc.id].status = "OPEN"
    /\ DOMAIN cache = {}

(* C18: the alert is in the store when its engine counts; when the count   *)
(* reaches escalate_if_count the call goes on to the save without having   *)
(* answered, and the step of the save that makes the persisted status      *)
(* ESCALATED is the one that answers.                                      *)
C18_EscalatedWithinIngestion ==
  [][\A q \in req :
       /\ EvaluateCount(q) =>
            /\ q.doc.id \in 1..Len(store)
            /\ Cardinality({i \in 1..Len(store) : InWindow(i, q.doc.id)})
                 >= rules[q.doc.sourceType].escalate_if_count
               => \E p \in req' :
                    /\ p.doc.id = q.doc.id /\ p.pc = "save" /\ p.res = 0
                    /\ p.doc.status = "ESCALATED"
       /\ (EvaluateSave(q) /\ q.doc.status = "ESCALATED") =>
            /\ q.res = 0
            /\ store'[q.doc.id].status = "ESCALATED"
            /\ \E p \in req' : p.doc.id = q.doc.id /\ p.res = 201]_vars

(* an alert ingested after an earlier one of its category, under a policy  *)
(* that escalates at two, was answered 201 with ESCALATED persisted        *)
C18_Witness ==
  \E q \in req :
    /\ q.res = 201 /\ q.entry = "OPEN" /\ q.saves = 1
    /\ rules[q.doc.sourceType].escalate_if_count = 2
    /\ store[q.doc.id].status = "ESCALATED"

(* C19: every step that completes a mutation (a createAlert call answered  *)
(* 201, a manual resolve that found its alert, a closure applied by a run  *)
(* of the worker) leaves no summary and no trends entry in the cache.      *)
C19_InvalidatedAfterEveryMutation ==
  [][ /\ \A p \in req' \ req :
           p.res = 201 => DOMAIN cache' \cap Keys = {}
      /\ \A id \in 1..Len(store), user \in Users :
           resolveAlert(id, user) => DOMAIN cache' \cap Keys = {}
      /\ \A t \in BagToSet(tick) :
           (tick' # tick /\ SweepNext(t) /\ store' # store) =>
             DOMAIN cache' \cap Keys = {} ]_vars

(* C20: a cached aggregate that get would still serve counts at least the  *)
(* alerts of the createAlert calls that have been answered 201.            *)
C20_NoStaleAggregateAfterIngestion ==
  \A k \in DOMAIN cache :
    clock <= cache[k].expiresAt =>
      cache[k].value[1] >= Cardinality({q \in req : q.pc = "done" /\ q.res = 201})

(* C21: the step that starts the worker launches the startup run; the      *)
(* startup run, whether its find succeeds or throws, leaves the process    *)
(* serving with the schedule registered; a run that throws in its loop     *)
(* leaves the process and the schedule as they were; and whenever the      *)
(* schedule is registered and fewer than MaxTicks runs are in flight, the  *)
(* next scheduled run can execute.                                         *)
C21_RunsAtStartAndAfterFailure ==
  /\ [][ (proc = Booting /\ proc'.db = "connected") =>
           proc'.worker = "startup" ]_vars
  /\ [][ (proc.worker = "startup" /\ proc'.worker # "startup") =>
           (proc'.db = "connected" /\ proc'.worker = "on") ]_vars
  /\ [][ (proc'.errorLogged /\ ~proc.errorLogged) =>
           (proc'.db = "connected" /\ proc'.worker # "off") ]_vars
  /\ [](  (Scheduled /\ proc.worker = "on" /\ BagCardinality(tick) < MaxTicks)
          => ENABLED SweepFind )

(* a run of the worker has failed, the schedule is registered, no run is   *)
(* in flight and a live alert is waiting for the next run                  *)
C21_Witness ==
  /\ proc.errorLogged
  /\ proc.worker = "on"
  /\ tick = EmptyBag
  /\ \E i \in 1..Len(store) : store[i].status \in LiveStatuses

(* C22: a run whose findOneAndUpdate throws is abandoned with all the      *)
(* candidates it had left and is not retried, the store keeps what the run *)
(* had written, and the run that the schedule starts next loads every      *)
(* alert that is still live.                                               *)
C22_FailedRunAbandonedNextRunRetries ==
  /\ [][ \A t \in BagToSet(tick) :
           (proc'.errorLogged /\ SweepNextFails(t)) =>
             /\ store' = store
             /\ tick' = tick (-) SetToBag({t}) ]_vars
  /\ [][ (tick' # tick /\ SweepFind) =>
           \E t \in BagToSet(tick') :
             /\ CopiesIn(t, tick') > CopiesIn(t, tick)
             /\ \A i \in 1..Len(store) :
                  store[i].status \in LiveStatuses =>
                    \E j \in 1..Len(t.todo) : t.todo[j].id = i ]_vars

(* a run has failed after a closure was applied, and a run in flight holds *)
(* an alert that is still live                                             *)
C22_Witness ==
  /\ proc.errorLogged
  /\ \E i \in 1..Len(store) : store[i].status = "AUTO-CLOSED"
  /\ \E t \in BagToSet(tick) : \E j \in 1..Len(t.todo) :
       store[t.todo[j].id].status \in LiveStatuses

(* C23: when the findOneAndUpdate for one candidate throws, the run goes   *)
(* on with the candidates that come after it.                              *)
C23_FailureIsolatedPerAlert ==
  [][ \A t \in BagToSet(tick) :
        (proc'.errorLogged /\ SweepNextFails(t) /\ Len(t.todo) > 1) =>
          BagIn([t EXCEPT !.todo = Tail(@)], tick') ]_vars

(* C24: a resolve that finds its alert writes status RESOLVED, resolvedBy  *)
(* and resolvedAt in that one step and nothing else of the document; a     *)
(* resolve answered 404 changes neither the store nor the cache.           *)
C24_ResolveRecordsActorOrNotFound ==
  [][ \A id \in 1..(MaxPrior + 1), user \in Users :
        resolveAlert(id, user) =>
          IF resolveStatus(id) = 200
          THEN /\ store'[id] = [store[id] EXCEPT !.status = "RESOLVED",
                                                 !.resolvedBy = user,
                                                 !.resolvedAt = clock]
               /\ \A i \in 1..Len(store) : i # id => store'[i] = store[i]
          ELSE store' = store /\ cache' = cache ]_vars

(* an alert has been resolved while an id above it matches no alert        *)
C24_Witness ==
  /\ Len(store) <= MaxPrior
  /\ \E i \in 1..Len(store) :
       /\ store[i].status = "RESOLVED"
       /\ store[i].resolvedBy \in Users
       /\ store[i].resolvedAt \in ClockValues

(* C25: an escalation evaluation (started by createAlert once the alert is *)
(* stored) and a run of the worker start with the catalog that rules.json  *)
(* holds at that moment.                                                   *)
C25_RunsUseCatalogOnFile ==
  [][ ( \/ tick' # tick /\ SweepFind
        \/ \E b \in Bodies : store' # store /\ CreateAlert(b) ) =>
      rules = getRulesConfig ]_vars

(* C26: the store only grows and keeps the identity of every document it   *)
(* holds, only createAlert adds a document, and the alert of every         *)
(* createAlert call that stored one is in the store.                       *)
C26_AlertsNeverDeleted ==
  /\ [][ /\ Len(store') >= Len(store)
         /\ \A i \in 1..Len(store) :
              /\ store'[i].id = store[i].id
              /\ store'[i].alertid = store[i].alertid
              /\ store'[i].sourceType = store[i].sourceType
              /\ store'[i].timestamp = store[i].timestamp ]_vars
  /\ [][ Len(store') > Len(store) => \E b \in Bodies : CreateAlert(b) ]_vars
  /\ [](\A q \in req :
          q.doc.id # 0 =>
            /\ q.doc.id <= Len(store)
            /\ store[q.doc.id].alertid = q.doc.alertid)

(* an ingested alert is still stored after a sweep closed it               *)
C26_Witness ==
  \E q \in req :
    /\ q.doc.id # 0
    /\ q.pc = "done"
    /\ store[q.doc.id].status = "AUTO-CLOSED"
    /\ store[q.doc.id].closureNote # None

(* C27: a step of a run that changes the status, the closedAt or the       *)
(* closureNote of an alert changes all three at once, on an alert that was *)
(* not AUTO-CLOSED; and where only the worker writes, an alert is          *)
(* AUTO-CLOSED exactly when it has a closure note and a closure time.      *)
C27_ClosureWrittenInOneUpdate ==
  /\ [][ \A t \in BagToSet(tick) :
           (tick' # tick /\ SweepNext(t)) =>
             \A i \in 1..Len(store) :
               ( \/ store'[i].status # store[i].status
                 \/ store'[i].closedAt # store[i].closedAt
                 \/ store'[i].closureNote # store[i].closureNote ) =>
               ( /\ store[i].status # "AUTO-CLOSED"
                 /\ store'[i].status = "AUTO-CLOSED"
                 /\ store'[i].closedAt = clock
                 /\ store'[i].closureNote # None ) ]_vars
  /\ [](\A i \in 1..Len(store) :
          /\ store[i].status = "AUTO-CLOSED" <=> store[i].closureNote # None
          /\ store[i].status = "AUTO-CLOSED" <=> store[i].closedAt # NoTime)

(* two alerts were closed by the worker at different times and each has    *)
(* its own closure time                                                    *)
C27_Witness ==
  \E i, j \in 1..Len(store) :
    /\ store[i].status = "AUTO-CLOSED" /\ store[j].status = "AUTO-CLOSED"
    /\ store[i].closureNote # None /\ store[j].closureNote # None
    /\ store[i].closedAt = MsPerMin - 1
    /\ store[j].closedAt = MsPerMin

(* C28: when the candidate a run would close is no longer live in the      *)
(* store, the iteration writes nothing, logs no error, and the run goes on *)
(* with the candidates that come after it.                                 *)
C28_LostTransitionIsNotAFailure ==
  [][ \A t \in BagToSet(tick) :
        ( /\ tick' # tick
          /\ SweepNext(t)
          /\ closureNoteFor(Head(t.todo), t.now) # None
          /\ store[Head(t.todo).id].status \notin LiveStatuses ) =>
        ( /\ store' = store
          /\ proc' = proc
          /\ Len(t.todo) > 1 => BagIn([t EXCEPT !.todo = Tail(@)], tick') ) ]_vars

(* two runs that loaded the same candidates at the same time have both    *)
(* gone past the first of them, which was closed once, after they had      *)
(* loaded it, and no error was logged                                      *)
C28_Witness ==
  /\ ~proc.errorLogged
  /\ \E t \in BagToSet(tick) :
       /\ CopiesIn(t, tick) = 2
       /\ Head(t.todo).id = 2
       /\ store[1].status = "AUTO-CLOSED"
       /\ store[1].closedAt > t.now
       /\ closureNoteFor(lean(store[1]), t.now) # None

C30_WorkerStartsAfterConnect ==
  /\ [](Scheduled => proc.db = "connected")
  /\ [](tick # EmptyBag => proc.db = "connected")
  /\ [][ proc.db # "connected" => (store' = store /\ tick' = tick) ]_vars
  /\ [][ proc.db = "failed" => proc' = proc ]_vars

(* the connection failed and the worker is off although a live alert is    *)
(* stored                                                                  *)
C30_Witness ==
  /\ proc.db = "failed"
  /\ proc.worker = "off"
  /\ tick = EmptyBag
  /\ \E i \in 1..Len(store) : store[i].status \in LiveStatuses

(* C31: get(key) answers the stored value exactly when the Map holds an    *)
(* entry for the key and the time is not past its expiry, and touches no   *)
(* other entry; set(key, value, ttl) leaves exactly that value under the   *)
(* key, expiring ttl seconds later; invalidate(keys) removes those entries *)
(* and no other; nothing else changes the Map.                             *)
C31_TtlCache ==
  /\ [](\A key \in Keys :
          LET got == cacheGet(cache, key, clock)
          IN /\ got.hit <=> (key \in DOMAIN cache /\ clock <= cache[key].expiresAt)
             /\ got.hit => got.value = cache[key].value
             /\ \A k \in DOMAIN cache \ {key} :
                  k \in DOMAIN got.cache /\ got.cache[k] = cache[k])
  /\ [][ \A key \in Keys, value \in CacheValues :
           TtlSet(key, value) =>
             /\ cache'[key] = [value |-> value,
                               expiresAt |-> clock + Ttl(key) * 1000]
             /\ \A k \in Keys \ {key} :
                  /\ k \in DOMAIN cache' <=> k \in DOMAIN cache
                  /\ k \in DOMAIN cache => cache'[k] = cache[k] ]_vars
  /\ [][ \A keys \in SUBSET Keys :
           TtlInvalidate(keys) =>
             /\ DOMAIN cache' = DOMAIN cache \ keys
             /\ \A k \in DOMAIN cache' : cache'[k] = cache[k] ]_vars
  /\ [][ clock' # clock => cache' = cache ]_vars

(* the summary entry is at its expiry time, where it is still served, next *)
(* to a trends entry that is not yet due                                   *)
C31_Witness ==
  /\ "summary" \in DOMAIN cache
  /\ clock = cache["summary"].expiresAt
  /\ cacheGet(cache, "summary", clock).hit
  /\ "trends" \in DOMAIN cache
  /\ clock < cache["trends"].expiresAt

(* C32: every stored alert whose status is AUTO-CLOSED has a closedAt and  *)
(* a closureNote.                                                          *)
C32_AutoClosedCarriesClosure ==
  \A i \in 1..Len(store) :
    store[i].status = "AUTO-CLOSED" =>
      (store[i].closedAt # NoTime /\ store[i].closureNote # None)

(* C33: a step of ingestion changes a stored alert only while the          *)
(* createAlert call of that very alert is still running; in particular an  *)
(* alert becomes ESCALATED only by the save of its own call.               *)
C33_EscalatedOnlyByOwnIngestion ==
  [][ \A i \in 1..Len(store) :
        /\ store'[i] # store[i] =>
             \E q \in req : q.doc.id = i /\ q.pc = "save" /\ EvaluateSave(q)
        /\ (store'[i].status = "ESCALATED" /\ store[i].status # "ESCALATED") =>
             \E q \in req : q.doc.id = i /\ q.doc.status = "ESCALATED" ]_vars

(* an alert stored earlier is still OPEN although a later call, answered   *)
(* 201, stored an older alert that brings its window count to the          *)
(* threshold                                                               *)
C33_Witness ==
  \E i \in 1..Len(store), q \in req :
    /\ q.res = 201
    /\ q.doc.id > i
    /\ store[q.doc.id].timestamp < store[i].timestamp
    /\ store[i].status = "OPEN"
    /\ store[i].sourceType \in EscalationTypes
    /\ HasRule(store[i].sourceType)
    /\ countDocuments(store[i].sourceType,
                      windowStart(store[i], rules[store[i].sourceType]),
                      store[i].timestamp)
         >= rules[store[i].sourceType].escalate_if_count
    /\ rules[store[i].sourceType].escalate_if_count > 1

(* C34: in the step in which a createAlert call is answered 201, the       *)
(* status it reports (that of its in-memory document) is the status the    *)
(* store holds for the alert.                                              *)
C34_ReportedStatusIsPersisted ==
  [][ \A q \in req' \ req :
        q.res = 201 => q.doc.status = store'[q.doc.id].status ]_vars

(* C36: no step changes the alertid, the sourceType, the timestamp or the  *)
(* caller's metadata (the document_valid flag) of a stored alert.          *)
C36_IdentityFieldsImmutable ==
  [][ \A i \in 1..Len(store) :
        /\ store'[i].alertid = store[i].alertid
        /\ store'[i].sourceType = store[i].sourceType
        /\ store'[i].timestamp = store[i].timestamp
        /\ store'[i].flag = store[i].flag ]_vars

(* an alert that carries a flag was closed by the worker and then resolved *)
(* by a user, and still carries the flag                                   *)
C36_Witness ==
  \E i \in 1..Len(store) :
    /\ store[i].closureNote # None
    /\ store[i].resolvedBy # None
    /\ store[i].flag # "absent"

(* C35: once the process is connected, every stored alert that is live and *)
(* whose category has an age-based closure policy eventually has a         *)
(* terminal status.                                                        *)
C35_AgedAlertsEventuallyTerminal ==
  \A i \in 1..MaxAged :
    ( /\ proc.db = "connected"
      /\ i <= Len(store)
      /\ store[i].status \in LiveStatuses
      /\ HasRule(store[i].sourceType)
      /\ rules[store[i].sourceType].auto_close_mins > 0 )
    ~> ( i <= Len(store) /\ store[i].status \in Terminal )

(* after a run of the worker failed, an alert that was past its threshold  *)
(* has been closed by age                                                  *)
C35_Witness ==
  /\ proc.errorLogged
  /\ \E i \in 1..Len(store) :
       /\ store[i].status = "AUTO-CLOSED"
       /\ rules[store[i].sourceType].auto_close_mins > 0
       /\ store[i].closedAt - store[i].timestamp >=
            rules[store[i].sourceType].auto_close_mins * MsPerMin

====
